---- MODULE Spec2Model ----
(***************************************************************************)
(* Model of the Personal Knowledge Vault (backend/rag_system.py): the      *)
(* conversation memory kept in chat_history and persisted to               *)
(* chat_history.json, the query pipeline, and batch ingestion; and of the  *)
(* Streamlit frontend's session state (frontend/app.py).                   *)
(*                                                                         *)
(* Python values are tagged records: [t |-> <type name>, v |-> <payload>]. *)
(* JSON documents are tagged records: [j |-> <json kind>, v |-> <payload>].*)
(***************************************************************************)
EXTENDS Integers, Sequences, FiniteSets, TLC

VARIABLES
    vault,          \* "none" | "up" | "crashed": is there a PersonalKnowledgeVault
    chat_history,   \* self.chat_history (a Python value)
    file,           \* the content of storage/chat_history.json
    index,          \* the entries of self.vector_store, in insertion order
    clock,          \* number of query calls so far (feeds uuid4() and now())
    last,           \* the last call made on the vault and what it returned
    session_chat_history    \* st.session_state.chat_history of the frontend

vars == <<vault, chat_history, file, index, clock, last, session_chat_history>>

----------------------------------------------------------------------------
(* Bounds of the model *)

MaxCalls == 2       \* query calls per behaviour
MaxIndex == 2       \* entries in the vector store
MaxBatch == 2       \* files per add_documents batch
MaxTurns == 3       \* turns in a memory whose rendering is read
MaxStore == 4       \* files ingested into a store that is listed
MaxArg == 5         \* largest max_messages / limit argument tried

----------------------------------------------------------------------------
(* Python values *)

PyNone == [t |-> "NoneType"]
PyBool(b) == [t |-> "bool", v |-> b]
PyInt(n) == [t |-> "int", v |-> n]
PyStr(s) == [t |-> "str", v |-> s]
PyList(s) == [t |-> "list", v |-> s]
PyDict(d) == [t |-> "dict", v |-> d]

\* bool(x) as Python's `not x` / `if x:` see it
Truthy(x) ==
    CASE x.t = "NoneType" -> FALSE
      [] x.t = "bool" -> x.v
      [] x.t = "int" -> x.v # 0
      [] x.t = "str" -> x.v # ""
      [] x.t = "list" -> Len(x.v) > 0
      [] x.t = "dict" -> DOMAIN x.v # {}
      [] OTHER -> TRUE

Min(a, b) == IF a <= b THEN a ELSE b
Max(a, b) == IF a >= b THEN a ELSE b

\* s[start:] mistaken for the first -start elements
SliceFirst(s, start) == SubSeq(s, 1, Min(-start, Len(s)))

\* s[start:] on a Python sequence, start any integer (negative counts from
\* the end and is clamped at 0; -0 is 0)
SliceFrom(s, start) ==
    LET n == Len(s)
        lo == IF start < 0 THEN Max(n + start, 0) ELSE Min(start, n)
    IN  SubSeq(s, lo + 1, n)

\* s[:stop] on a Python string, stop >= 0
SliceTo(s, stop) == SubSeq(s, 1, Min(stop, Len(s)))

\* sep.join(parts)
RECURSIVE Join(_, _)
Join(sep, parts) ==
    IF Len(parts) = 0 THEN ""
    ELSE IF Len(parts) = 1 THEN parts[1]
    ELSE parts[1] \o sep \o Join(sep, Tail(parts))

----------------------------------------------------------------------------
(* chat_history.json: json.dump / json.load and the file they go through *)

JNull == [j |-> "null"]
JBool(b) == [j |-> "bool", v |-> b]
JNumber(n) == [j |-> "number", v |-> n]
JString(s) == [j |-> "string", v |-> s]
JArray(s) == [j |-> "array", v |-> s]
JObject(d) == [j |-> "object", v |-> d]

\* str(x), the `default=` hook of json.dump, for the types json cannot encode
PyStrOf(x) == PyStr("<" \o x.t \o ">")

\* json.dump that hands None to the default hook: str(None)
RECURSIVE JsonDumpNoneAsStr(_)
JsonDumpNoneAsStr(x) ==
    CASE x.t = "NoneType" -> JString("None")
      [] x.t = "bool" -> JBool(x.v)
      [] x.t = "int" -> JNumber(x.v)
      [] x.t = "str" -> JString(x.v)
      [] x.t = "list" -> JArray([i \in DOMAIN x.v |-> JsonDumpNoneAsStr(x.v[i])])
      [] x.t = "dict" -> JObject([k \in DOMAIN x.v |-> JsonDumpNoneAsStr(x.v[k])])
      [] OTHER -> JsonDumpNoneAsStr(PyStrOf(x))

\* json.dump(x, f, indent=2, default=str): the document written for x
RECURSIVE JsonDump(_)
JsonDump(x) ==
    CASE x.t = "NoneType" -> JNull
      [] x.t = "bool" -> JBool(x.v)
      [] x.t = "int" -> JNumber(x.v)
      [] x.t = "str" -> JString(x.v)
      [] x.t = "list" -> JArray([i \in DOMAIN x.v |-> JsonDump(x.v[i])])
      [] x.t = "dict" -> JObject([k \in DOMAIN x.v |-> JsonDump(x.v[k])])
      [] OTHER -> JsonDump(PyStrOf(x))

\* json.load(f): the Python value read from a document
RECURSIVE JsonLoad(_)
JsonLoad(d) ==
    CASE d.j = "null" -> PyNone
      [] d.j = "bool" -> PyBool(d.v)
      [] d.j = "number" -> PyInt(d.v)
      [] d.j = "string" -> PyStr(d.v)
      [] d.j = "array" -> PyList([i \in DOMAIN d.v |-> JsonLoad(d.v[i])])
      [] d.j = "object" -> PyDict([k \in DOMAIN d.v |-> JsonLoad(d.v[k])])

\* The states of the file chat_history.json
FileMissing == [kind |-> "missing"]                 \* no such file
FileBinary == [kind |-> "binary"]                   \* bytes that do not decode as text
FileGarbage == [kind |-> "garbage"]                 \* text that is not a JSON document
FileJson(d) == [kind |-> "json", doc |-> d]         \* the text of JSON document d

Returned(v) == [raised |-> FALSE, value |-> v]
Raised(e) == [raised |-> TRUE, error |-> e]

ErrPermission == "[Errno 13] Permission denied: 'storage/chat_history.json'"
ErrDecode == "'utf-8' codec can't decode byte 0xff in position 0: invalid start byte"
ErrNoSpace == "[Errno 28] No space left on device"

\* _load_chat_history: only JSONDecodeError and FileNotFoundError are caught
LoadChatHistory(f) ==
    IF f.kind # "missing"
    THEN CASE f.kind = "binary" -> Raised(ErrDecode)
           [] f.kind = "garbage" -> Returned(PyList(<<>>))
           [] f.kind = "json" -> Returned(JsonLoad(f.doc))
    ELSE Returned(PyList(<<>>))

\* What the storage does to one _save_chat_history call
SaveOutcomes == {"written", "open_fails", "write_fails"}

\* _save_chat_history: open(..., 'w') truncates the file, json.dump fills it.
\* Returns the call's outcome and the file it leaves behind.
SaveChatHistory(history, f, outcome) ==
    CASE outcome = "written" ->
            [raised |-> FALSE, file |-> FileJson(JsonDump(history))]
      [] outcome = "open_fails" ->
            [raised |-> TRUE, error |-> ErrPermission, file |-> f]
      [] outcome = "write_fails" ->
            [raised |-> TRUE, error |-> ErrNoSpace, file |-> FileGarbage]

----------------------------------------------------------------------------
(* Conversation memory: formatting and reading *)

NoConversation == "No previous conversation."

\* str(x) as an f-string renders x
Format(x) ==
    CASE x.t = "str" -> x.v
      [] x.t = "NoneType" -> "None"
      [] OTHER -> "<" \o x.t \o ">"

IsMessage(m) ==
    m.t = "dict" /\ "question" \in DOMAIN m.v /\ "answer" \in DOMAIN m.v

\* only the question line of each message
RECURSIVE ContextPartsQuestionsOnly(_)
ContextPartsQuestionsOnly(msgs) ==
    IF Len(msgs) = 0 THEN <<>>
    ELSE << "Q: " \o Format(Head(msgs).v["question"]) >>
         \o ContextPartsQuestionsOnly(Tail(msgs))

\* the two lines _format_chat_context appends for each message, flattened
RECURSIVE ContextParts(_)
ContextParts(msgs) ==
    IF Len(msgs) = 0 THEN <<>>
    ELSE << "Q: " \o Format(Head(msgs).v["question"]),
            "A: " \o Format(Head(msgs).v["answer"]) >>
         \o ContextParts(Tail(msgs))

\* _format_chat_context(max_messages)
FormatChatContext(history, max_messages) ==
    IF ~Truthy(history) THEN Returned(NoConversation)
    ELSE IF history.t # "list" THEN Raised("unhashable type: 'slice'")
    ELSE LET recent_messages == SliceFrom(history.v, -max_messages)
         IN  IF \E i \in DOMAIN recent_messages : ~IsMessage(recent_messages[i])
             THEN Raised("'NoneType' object is not subscriptable")
             ELSE Returned(Join("\n", ContextParts(recent_messages)))

\* get_chat_history(limit), limit a Python value (None when absent)
GetChatHistory(history, limit) ==
    IF Truthy(limit)
    THEN IF history.t = "list"
         THEN Returned(PyList(SliceFrom(history.v, -limit.v)))
         ELSE Raised("unhashable type: 'slice'")
    ELSE Returned(history)

----------------------------------------------------------------------------
(* The vector store and the query pipeline *)

RetrievalK == 4
PreviewChars == 200
DefaultContextMessages == 5

Document(text, meta) == [page_content |-> text, metadata |-> meta]

\* dict.get(key, default)
Get(d, key, default) == IF key \in DOMAIN d THEN d[key] ELSE default

\* The rankings a similarity search with k = RetrievalK may return over idx:
\* min(k, n) distinct entries, in the order the index engine ranks them.
Rankings(idx) ==
    LET n == Min(RetrievalK, Len(idx))
    IN  { r \in [1..n -> DOMAIN idx] : \A a, b \in 1..n : a # b => r[a] # r[b] }

Retrieved(idx, r) == [i \in DOMAIN r |-> idx[r[i]]]

\* format_docs with a placeholder text when nothing was retrieved
FormatDocsPlaceholder(docs) ==
    IF Len(docs) = 0 THEN "No relevant documents found."
    ELSE Join("\n\n", [i \in DOMAIN docs |-> docs[i].page_content])

\* format_docs of _build_rag_chain
FormatDocs(docs) == Join("\n\n", [i \in DOMAIN docs |-> docs[i].page_content])

\* the entry query builds for one retrieved document
SourceEntry(doc) ==
    PyDict([content |-> PyStr(SliceTo(doc.page_content, PreviewChars) \o "..."),
            source |-> Get(doc.metadata, "source", PyStr("Unknown")),
            page |-> Get(doc.metadata, "page", PyNone)])

Sources(docs) == PyList([i \in DOMAIN docs |-> SourceEntry(docs[i])])

Uuid4(n) == "uuid-" \o ToString(n)
NowIso(n) == "2025-01-01T00:00:0" \o ToString(n)

ChatEntry(id, timestamp, question, answer, sources) ==
    PyDict([id |-> PyStr(id), timestamp |-> PyStr(timestamp),
            question |-> PyStr(question), answer |-> PyStr(answer),
            sources |-> sources])

QuerySuccess(answer, sources, id) ==
    PyDict([answer |-> PyStr(answer), sources |-> sources,
            chat_id |-> PyStr(id), success |-> PyBool(TRUE)])

QueryFailure(e) ==
    PyDict([answer |-> PyStr("I encountered an error: " \o e),
            sources |-> PyList(<<>>), chat_id |-> PyNone,
            success |-> PyBool(FALSE), error |-> PyStr(e)])

ErrSearch == "Error embedding content: 503 service unavailable"
ErrGenerate == "429 Resource has been exhausted"
ErrAppend == "'dict' object has no attribute 'append'"

\* What the outside world does during one query call: the first external
\* call to raise (retriever.invoke in query, the retriever inside rag_chain,
\* the generation service), the ranking the index returns to the search of
\* query (ranking) and to the search inside rag_chain (ranking2), the answer
\* the service gives and what the storage does to the save. A choice the
\* call never gets to is fixed, so that each run is listed once.
QueryEnvs(idx) ==
    LET anyRanking == CHOOSE r \in Rankings(idx) : TRUE
        answers == {"It is AI [ai.md]."}
    IN  [fault : {"search1"}, answer : answers, ranking : {anyRanking},
         ranking2 : {anyRanking}, save : {"written"}]
        \cup [fault : {"search2"}, answer : answers,
              ranking : Rankings(idx), ranking2 : {anyRanking},
              save : {"written"}]
        \cup [fault : {"llm"}, answer : answers,
              ranking : Rankings(idx), ranking2 : Rankings(idx),
              save : {"written"}]
        \cup [fault : {"none"}, answer : answers,
              ranking : Rankings(idx), ranking2 : Rankings(idx),
              save : SaveOutcomes]

\* list.insert(0, entry) in place of list.append
ListPrepend(history, entry) ==
    IF history.t = "list" THEN Returned(PyList(<<entry>> \o history.v))
    ELSE Raised(ErrAppend)

\* list.append on self.chat_history
ListAppend(history, entry) ==
    IF history.t = "list" THEN Returned(PyList(Append(history.v, entry)))
    ELSE Raised(ErrAppend)

\* a query without its except clause: the exception reaches the caller
QueryExceptMissing(e) == Raised(e)

\* the except clause of query: the exception becomes a failure result
QueryExcept(e) == Returned(QueryFailure(e))

\* query(question): the whole handler, try block and except clause.
\* The call's outcome, the memory and file it leaves, and what it did on the
\* way: the documents retrieved, the prompt sent to the generation service,
\* the steps gone through and the exception raised inside the try block.
QueryRun(history, f, idx, n, question, env) ==
    LET retrieved_docs == Retrieved(idx, env.ranking)
        context_docs == Retrieved(idx, env.ranking2)
        chat_context == FormatChatContext(history, DefaultContextMessages)
        answer == env.answer
        sources == Sources(retrieved_docs)
        chat_entry == ChatEntry(Uuid4(n), NowIso(n), question, answer, sources)
        appended == ListAppend(history, chat_entry)
        saved == SaveChatHistory(appended.value, f, env.save)
        prompt == << [chat_context |-> chat_context.value,
                      context |-> FormatDocs(context_docs),
                      question |-> question] >>
        fail(e, h, fl, docs, sent, trace) ==
            [outcome |-> QueryExcept(e), exception |-> <<e>>,
             chat_history |-> h, file |-> fl, retrieved |-> docs,
             prompt |-> sent, trace |-> trace]
    IN  IF env.fault = "search1"
        THEN fail(ErrSearch, history, f, <<>>, <<>>, <<"search">>)
        ELSE IF env.fault = "search2"
        THEN fail(ErrSearch, history, f, retrieved_docs, <<>>,
                  <<"search", "search">>)
        ELSE IF chat_context.raised
        THEN fail(chat_context.error, history, f, retrieved_docs, <<>>,
                  <<"search", "search", "format">>)
        ELSE IF env.fault = "llm"
        THEN fail(ErrGenerate, history, f, retrieved_docs, prompt,
                  <<"search", "search", "format", "generate">>)
        ELSE IF appended.raised
        THEN fail(appended.error, history, f, retrieved_docs, prompt,
                  <<"search", "search", "format", "generate", "append">>)
        ELSE IF saved.raised
        THEN fail(saved.error, appended.value, saved.file, retrieved_docs,
                  prompt,
                  <<"search", "search", "format", "generate", "append", "save">>)
        ELSE [outcome |-> Returned(QuerySuccess(answer, sources, Uuid4(n))),
              exception |-> <<>>,
              chat_history |-> appended.value, file |-> saved.file,
              retrieved |-> retrieved_docs, prompt |-> prompt,
              trace |-> <<"search", "search", "format", "generate",
                          "append", "save">>]

\* clear_chat_history(): returns None, or raises what _save_chat_history raises
ClearRun(f, save) ==
    LET saved == SaveChatHistory(PyList(<<>>), f, save)
    IN  [chat_history |-> PyList(<<>>), file |-> saved.file,
         outcome |-> IF saved.raised THEN Raised(saved.error) ELSE Returned(PyNone)]

----------------------------------------------------------------------------
(* Ingestion *)

\* str.lower() on the suffixes that occur
Lower(suffix) ==
    CASE suffix = ".PDF" -> ".pdf"
      [] suffix = ".MD" -> ".md"
      [] OTHER -> suffix

RECURSIVE Repeat(_, _)
Repeat(s, n) == IF n = 0 THEN "" ELSE s \o Repeat(s, n - 1)

ShortText == "Artificial Intelligence is the simulation of human intelligence"
LongText == Repeat("Machine learning improves from experience. ", 5)

\* DocumentProcessor.MAX_FILE_SIZE: 10 MB
MaxFileSize == 10 * 1024 * 1024

\* DocumentProcessor.validate_file_size, for a file that can be stat'ed
ValidateFileSize(fl) == fl.size <= MaxFileSize

\* The files offered for ingestion: the path given, Path(path).name,
\* Path(path).suffix, the size in bytes, and the documents its loader yields
\* when it can load it.
Files ==
    { [path |-> "data/ai.md", name |-> "ai.md", suffix |-> ".md",
       size |-> 2048,
       docs |-> << Document(ShortText, [source |-> PyStr("data/ai.md")]) >>],
      [path |-> "data/ml.PDF", name |-> "ml.PDF", suffix |-> ".PDF",
       size |-> 11 * 1024 * 1024,
       docs |-> << Document(LongText, [source |-> PyStr("data/ml.PDF"),
                                       page |-> PyInt(0)]) >>],
      [path |-> "data/setup.exe", name |-> "setup.exe", suffix |-> ".exe",
       size |-> 4096,
       docs |-> <<>>] }

\* loader selection whose last branch is a default loader, not a rejection
LoaderForDefaultText(suffix) ==
    IF Lower(suffix) = ".pdf" THEN "PyPDFLoader"
    ELSE IF Lower(suffix) \in {".docx", ".doc"} THEN "Docx2txtLoader"
    ELSE "TextLoader"

\* the loader add_documents picks for a suffix, "" when it picks none
LoaderFor(suffix) ==
    IF Lower(suffix) = ".pdf" THEN "PyPDFLoader"
    ELSE IF Lower(suffix) = ".txt" THEN "TextLoader"
    ELSE IF Lower(suffix) \in {".docx", ".doc"} THEN "Docx2txtLoader"
    ELSE IF Lower(suffix) = ".md" THEN "TextLoader"
    ELSE ""

\* f1 @@-style update of a metadata dict: d.update(u)
Update(d, u) ==
    [k \in DOMAIN d \cup DOMAIN u |-> IF k \in DOMAIN u THEN u[k] ELSE d[k]]

\* metadata stamped on each loaded document, then the splitter's start_index
\* (every document of Files is shorter than chunk_size: one chunk, offset 0)
Stamp(doc, fl, n) ==
    Document(doc.page_content,
             Update(Update(doc.metadata,
                           [source |-> PyStr(fl.name),
                            added_date |-> PyStr(NowIso(n)),
                            file_type |-> PyStr(fl.suffix)]),
                    [start_index |-> PyInt(0)]))

Splits(fl, n) == [i \in DOMAIN fl.docs |-> Stamp(fl.docs[i], fl, n)]

ErrLoad == "Error loading file"
ErrEmbed == "Error embedding content: 503 service unavailable"

\* What the outside world does to one file of a batch (nothing to a file no
\* loader is built for)
IngestOutcomes(fl) ==
    IF LoaderFor(fl.suffix) = "" THEN {"ok"}
    ELSE {"ok", "load_fails", "store_fails"}

EmptyResults == [processed |-> 0, failed |-> 0, errors |-> <<>>]

\* The loop body with the except clause leaving the loop: the files after a
\* file that raised are not looked at (acc.results.failed counts the raise)
AddOneAborting(acc, fl, outcome, n) ==
    LET results == acc.results
        aborted == Len(results.errors) > 0
                   /\ results.errors[Len(results.errors)] \notin
                        {"Unsupported file type: " \o f.path : f \in Files}
        failWith(msg, loaded) ==
            [results |-> [results EXCEPT !.errors = Append(@, msg),
                                         !.failed = @ + 1],
             index |-> acc.index,
             loads |-> acc.loads \o loaded]
    IN  IF aborted THEN acc
        ELSE IF LoaderFor(fl.suffix) = ""
        THEN failWith("Unsupported file type: " \o fl.path, <<>>)
        ELSE IF outcome = "load_fails"
        THEN failWith("Error processing " \o fl.path \o ": " \o ErrLoad,
                      <<fl.path>>)
        ELSE IF outcome = "store_fails"
        THEN failWith("Error processing " \o fl.path \o ": " \o ErrEmbed,
                      <<fl.path>>)
        ELSE [results |-> [results EXCEPT !.processed = @ + 1],
              index |-> acc.index \o Splits(fl, n),
              loads |-> acc.loads \o <<fl.path>>]

\* One iteration of the loop of add_documents over file fl. acc holds the
\* results dict, the vector store, and the paths whose loader was invoked.
AddOne(acc, fl, outcome, n) ==
    LET results == acc.results
        failWith(msg, loaded) ==
            [results |-> [results EXCEPT !.errors = Append(@, msg),
                                         !.failed = @ + 1],
             index |-> acc.index,
             loads |-> acc.loads \o loaded]
    IN  IF LoaderFor(fl.suffix) = ""
        THEN failWith("Unsupported file type: " \o fl.path, <<>>)
        ELSE IF outcome = "load_fails"
        THEN failWith("Error processing " \o fl.path \o ": " \o ErrLoad,
                      <<fl.path>>)
        ELSE IF outcome = "store_fails"
        THEN failWith("Error processing " \o fl.path \o ": " \o ErrEmbed,
                      <<fl.path>>)
        ELSE [results |-> [results EXCEPT !.processed = @ + 1],
              index |-> acc.index \o Splits(fl, n),
              loads |-> acc.loads \o <<fl.path>>]

\* ord(c) for the characters of the file names that occur
Ord(c) ==
    CASE c = "." -> 46
      [] c = "D" -> 68
      [] c = "F" -> 70
      [] c = "P" -> 80
      [] c = "a" -> 97
      [] c = "d" -> 100
      [] c = "e" -> 101
      [] c = "i" -> 105
      [] c = "l" -> 108
      [] c = "m" -> 109
      [] c = "p" -> 112
      [] c = "s" -> 115
      [] c = "t" -> 116
      [] c = "u" -> 117
      [] c = "x" -> 120
      [] OTHER -> 0

\* a < b on Python strings: lexicographic by code point
RECURSIVE StrLess(_, _)
StrLess(a, b) ==
    IF Len(b) = 0 THEN FALSE
    ELSE IF Len(a) = 0 THEN TRUE
    ELSE IF Ord(SubSeq(a, 1, 1)) # Ord(SubSeq(b, 1, 1))
         THEN Ord(SubSeq(a, 1, 1)) < Ord(SubSeq(b, 1, 1))
         ELSE StrLess(SubSeq(a, 2, Len(a)), SubSeq(b, 2, Len(b)))

\* sorted(list(strs)) for a set of strings
RECURSIVE Sorted(_)
Sorted(strs) ==
    IF strs = {} THEN <<>>
    ELSE LET least == CHOOSE x \in strs : \A y \in strs \ {x} : StrLess(x, y)
         IN  <<least>> \o Sorted(strs \ {least})

\* What the index engine does to one call
IndexOutcomes == {"ok", "raises"}

\* get_document_count(): collection.count(), 0 when that raises
GetDocumentCount(idx, outcome) ==
    IF outcome = "raises" THEN Returned(PyInt(0))
    ELSE Returned(PyInt(Len(idx)))

\* the source of every stored entry, in store order, duplicates kept
ListSourcesUnsorted(idx, outcome) ==
    IF outcome = "raises" THEN Returned(PyList(<<>>))
    ELSE Returned(PyList([i \in DOMAIN idx |-> idx[i].metadata["source"]]))

\* list_sources(): the distinct sources of vector_store.get()['metadatas'],
\* sorted; [] when anything raises
ListSources(idx, outcome) ==
    IF outcome = "raises" THEN Returned(PyList(<<>>))
    ELSE LET sources == { idx[i].metadata["source"].v :
                            i \in { k \in DOMAIN idx :
                                      "source" \in DOMAIN idx[k].metadata } }
             sorted == Sorted(sources)
         IN  Returned(PyList([i \in DOMAIN sorted |-> PyStr(sorted[i])]))

\* add_documents(file_paths): the loop, from the first file on
RECURSIVE AddDocumentsFrom(_, _, _, _, _)
AddDocumentsFrom(acc, batch, outcomes, i, n) ==
    IF i > Len(batch) THEN acc
    ELSE AddDocumentsFrom(AddOne(acc, batch[i], outcomes[i], n),
                          batch, outcomes, i + 1, n)

AddDocumentsRun(idx, batch, outcomes, n) ==
    AddDocumentsFrom([results |-> EmptyResults, index |-> idx, loads |-> <<>>],
                     batch, outcomes, 1, n)

----------------------------------------------------------------------------
(* The state machine *)

Questions == {"What is AI?", "And ML?"}

\* A turn persisted by an earlier session
EarlierTurn ==
    ChatEntry("uuid-e", "2024-12-31T23:59:59", "What is AI?",
              "It is AI [ai.md].", PyList(<<>>))

\* What chat_history.json may hold when the program is first started
InitialFiles ==
    { FileMissing, FileBinary, FileGarbage,
      FileJson(JObject(<<>>)),
      FileJson(JArray(<<JNull>>)),
      FileJson(JsonDump(PyList(<<EarlierTurn>>))) }

Batches == UNION { [1..n -> Files] : n \in 0..MaxBatch }

AiFile == CHOOSE f \in Files : f.name = "ai.md"
MlFile == CHOOSE f \in Files : f.name = "ml.PDF"

\* What the persisted vector store may hold when the program is started:
\* nothing, or what earlier sessions ingested
InitialIndexes ==
    { <<>>,
      AddDocumentsRun(<<>>, <<AiFile, MlFile>>, <<"ok", "ok">>, 0).index }

\* 'chat_history' not in st.session_state
NotInSession == [t |-> "absent"]

Init ==
    /\ vault = "none"
    /\ chat_history = PyNone
    /\ file \in InitialFiles
    /\ index \in InitialIndexes
    /\ clock = 0
    /\ last = [op |-> "none"]
    /\ session_chat_history = NotInSession

\* A turn recorded by a query of this session
LaterTurn ==
    ChatEntry(Uuid4(0), NowIso(0), "And ML?", "It is AI [ai.md].", PyList(<<>>))

\* What self.chat_history may be when it is read: up to MaxTurns turns, or
\* what json.load made of a file that held no list of turns
Histories ==
    { PyList(h) : h \in UNION { [1..n -> {EarlierTurn, LaterTurn}] :
                                  n \in 0..MaxTurns } }
    \cup { JsonLoad(JObject(<<>>)), JsonLoad(JArray(<<JNull>>)) }

\* a vault whose memory is about to be read
InitMemory ==
    /\ vault = "up"
    /\ chat_history \in Histories
    /\ file = FileJson(JsonDump(chat_history))
    /\ index = <<>>
    /\ clock = 0
    /\ last = [op |-> "none"]
    /\ session_chat_history = NotInSession

\* What the vector store holds after up to MaxStore ingestions of ai.md and
\* ml.PDF, in any order
Stores ==
    { AddDocumentsRun(<<>>, batch, [i \in DOMAIN batch |-> "ok"], 0).index :
        batch \in UNION { [1..n -> {AiFile, MlFile}] : n \in 0..MaxStore } }

\* a vault whose vector store is about to be listed
InitIndex ==
    /\ vault = "up"
    /\ chat_history = PyList(<<>>)
    /\ file = FileMissing
    /\ index \in Stores
    /\ clock = 0
    /\ last = [op |-> "none"]
    /\ session_chat_history = NotInSession

\* a vault constructed on an empty storage directory
InitIngest ==
    /\ vault = "up"
    /\ chat_history = PyList(<<>>)
    /\ file = FileMissing
    /\ index = <<>>
    /\ clock = 0
    /\ last = [op |-> "none"]
    /\ session_chat_history = NotInSession

\* PersonalKnowledgeVault(storage_path): __init__ loads the chat history
Start ==
    /\ vault # "up"
    /\ LET loaded == LoadChatHistory(file)
       IN  /\ vault' = IF loaded.raised THEN "crashed" ELSE "up"
           /\ chat_history' = IF loaded.raised THEN PyNone ELSE loaded.value
           /\ last' = [op |-> "init", outcome |-> loaded, file |-> file]
    /\ UNCHANGED <<file, index, clock, session_chat_history>>

\* the process ends; the storage directory stays
Exit ==
    /\ vault = "up"
    /\ vault' = "none"
    /\ chat_history' = PyNone
    /\ last' = [op |-> "exit", chat_history |-> chat_history]
    /\ UNCHANGED <<file, index, clock, session_chat_history>>

Query ==
    /\ vault = "up"
    /\ clock < MaxCalls
    /\ \E question \in Questions, env \in QueryEnvs(index) :
         LET run == QueryRun(chat_history, file, index, clock, question, env)
         IN  /\ chat_history' = run.chat_history
             /\ file' = run.file
             /\ last' = [op |-> "query", question |-> question,
                         outcome |-> run.outcome, exception |-> run.exception,
                         retrieved |-> run.retrieved, prompt |-> run.prompt,
                         trace |-> run.trace, env |-> env,
                         chat_history |-> chat_history, file |-> file]
    /\ clock' = clock + 1
    /\ UNCHANGED <<vault, index, session_chat_history>>

ClearChatHistory ==
    /\ vault = "up"
    /\ \E save \in SaveOutcomes :
         LET run == ClearRun(file, save)
         IN  /\ chat_history' = run.chat_history
             /\ file' = run.file
             /\ last' = [op |-> "clear_chat_history", outcome |-> run.outcome,
                         chat_history |-> chat_history, file |-> file]
    /\ UNCHANGED <<vault, index, clock, session_chat_history>>

AddDocuments ==
    /\ vault = "up"
    /\ \E batch \in Batches :
       \E outcomes \in [DOMAIN batch -> {"ok", "load_fails", "store_fails"}] :
         LET run == AddDocumentsRun(index, batch, outcomes, clock)
         IN  /\ \A i \in DOMAIN batch : outcomes[i] \in IngestOutcomes(batch[i])
             /\ Len(run.index) <= MaxIndex
             /\ index' = run.index
             /\ last' = [op |-> "add_documents", batch |-> batch,
                         outcomes |-> outcomes,
                         results |-> run.results, loads |-> run.loads,
                         index |-> index]
    /\ UNCHANGED <<vault, chat_history, file, clock, session_chat_history>>

GetDocumentCountCall ==
    /\ vault = "up"
    /\ \E outcome \in IndexOutcomes :
         last' = [op |-> "get_document_count", index_call |-> outcome,
                  outcome |-> GetDocumentCount(index, outcome)]
    /\ UNCHANGED <<vault, chat_history, file, index, clock, session_chat_history>>

ListSourcesCall ==
    /\ vault = "up"
    /\ \E outcome \in IndexOutcomes :
         last' = [op |-> "list_sources", index_call |-> outcome,
                  outcome |-> ListSources(index, outcome)]
    /\ UNCHANGED <<vault, chat_history, file, index, clock, session_chat_history>>

Limits == {PyNone} \cup {PyInt(n) : n \in 0..MaxArg}

GetChatHistoryCall ==
    /\ vault = "up"
    /\ \E limit \in Limits :
         last' = [op |-> "get_chat_history", limit |-> limit,
                  outcome |-> GetChatHistory(chat_history, limit)]
    /\ UNCHANGED <<vault, chat_history, file, index, clock, session_chat_history>>

FormatChatContextCall ==
    /\ vault = "up"
    /\ \E max_messages \in 0..MaxArg :
         last' = [op |-> "_format_chat_context", max_messages |-> max_messages,
                  outcome |-> FormatChatContext(chat_history, max_messages)]
    /\ UNCHANGED <<vault, chat_history, file, index, clock, session_chat_history>>

\* The conversation side of the vault, over a vector store filled earlier
\* initialize_session_state()
InitializeSessionState(session) ==
    IF session = NotInSession THEN PyList(<<>>) ELSE session

\* one run of main() without a widget event, while the session has no vault:
\* initialize_session_state(), then initialize_rag_system() constructs the
\* vault; when that raises the run stops and the session keeps no vault
Main ==
    /\ vault # "up"
    /\ LET loaded == LoadChatHistory(file)
       IN  /\ vault' = IF loaded.raised THEN "crashed" ELSE "up"
           /\ chat_history' = IF loaded.raised THEN PyNone ELSE loaded.value
           /\ last' = [op |-> "main", outcome |-> loaded, file |-> file]
    /\ session_chat_history' = InitializeSessionState(session_chat_history)
    /\ UNCHANGED <<file, index, clock>>

\* handle_user_question(question): query, then the session takes
\* get_chat_history()
HandleUserQuestion ==
    /\ vault = "up"
    /\ clock < MaxCalls
    /\ \E question \in Questions, env \in QueryEnvs(index) :
         LET run == QueryRun(chat_history, file, index, clock, question, env)
         IN  /\ chat_history' = run.chat_history
             /\ file' = run.file
             /\ session_chat_history' =
                  GetChatHistory(run.chat_history, PyNone).value
             /\ last' = [op |-> "handle_user_question",
                         question |-> question, outcome |-> run.outcome,
                         chat_history |-> chat_history]
    /\ clock' = clock + 1
    /\ UNCHANGED <<vault, index>>

\* the Clear Chat History button of render_sidebar: clear_chat_history(),
\* then the session's list is emptied unless that call raised
ClearButton ==
    /\ vault = "up"
    /\ \E save \in SaveOutcomes :
         LET run == ClearRun(file, save)
         IN  /\ chat_history' = run.chat_history
             /\ file' = run.file
             /\ session_chat_history' =
                  IF run.outcome.raised THEN session_chat_history
                  ELSE PyList(<<>>)
             /\ last' = [op |-> "clear_button", outcome |-> run.outcome,
                         chat_history |-> chat_history]
    /\ UNCHANGED <<vault, index, clock>>

\* the browser session ends: st.session_state is discarded, storage stays
SessionEnd ==
    /\ vault = "up"
    /\ vault' = "none"
    /\ chat_history' = PyNone
    /\ session_chat_history' = NotInSession
    /\ last' = [op |-> "session_end", chat_history |-> chat_history]
    /\ UNCHANGED <<file, index, clock>>

Next ==
    \/ Start
    \/ Exit
    \/ Query
    \/ ClearChatHistory

Spec == Init /\ [][Next]_vars

\* Reading the conversation memory
NextMemory ==
    \/ GetChatHistoryCall
    \/ FormatChatContextCall

SpecMemory == InitMemory /\ [][NextMemory]_vars

\* The ingestion side of the vault
NextIngest ==
    \/ AddDocuments

SpecIngest == InitIngest /\ [][NextIngest]_vars

\* Listing the vector store
NextIndex ==
    \/ GetDocumentCountCall
    \/ ListSourcesCall

SpecIndex == InitIndex /\ [][NextIndex]_vars

\* The frontend: script runs of app.py on one browser session at a time
NextFrontend ==
    \/ Main
    \/ HandleUserQuestion
    \/ ClearButton
    \/ SessionEnd

SpecFrontend == Init /\ [][NextFrontend]_vars

----------------------------------------------------------------------------
(* Properties *)

IsTurnList(h) == h.t = "list" /\ \A i \in DOMAIN h.v : IsMessage(h.v[i])

QueryReturned == last.op = "query" /\ ~last.outcome.raised
QuerySucceeded == QueryReturned /\ last.outcome.value.v["success"] = PyBool(TRUE)
QueryFailed == QueryReturned /\ last.outcome.value.v["success"] = PyBool(FALSE)

\* A call that mutated the conversation memory has returned
MutatingCallReturned ==
    \/ last.op = "clear_chat_history"
    \/ last.op = "query" /\ chat_history # last.chat_history

\* C1: after any call that mutates the conversation memory returns (a query
\* that appends a turn, clear_chat_history), chat_history.json holds the
\* serialization of the in-memory chat_history, also when the write failed.
C1_StoreIsSerializationOfMemory ==
    MutatingCallReturned => file = FileJson(JsonDump(chat_history))

\* C2: whenever query returns success=false, no turn has been recorded: the
\* in-memory chat_history and the file are what they were before the call.
C2_FailedQueryRecordsNothing ==
    QueryFailed => chat_history = last.chat_history /\ file = last.file

\* C3: query never propagates an error raised inside it: when retrieval,
\* generation or recording raises, it returns a result with success=false,
\* sources empty, chat_id None, error the text of the exception and answer a
\* message that embeds that text.
C3_QueryFailureIsStructured ==
    last.op = "query" =>
        /\ ~last.outcome.raised
        /\ last.outcome.value.t = "dict"
        /\ Len(last.exception) = 0 => last.outcome.value.v["success"] = PyBool(TRUE)
        /\ Len(last.exception) > 0 =>
             LET r == last.outcome.value.v
                 e == last.exception[1]
             IN  /\ DOMAIN r = {"answer", "sources", "chat_id", "success", "error"}
                 /\ r["success"] = PyBool(FALSE)
                 /\ r["sources"] = PyList(<<>>)
                 /\ r["chat_id"] = PyNone
                 /\ r["error"] = PyStr(e)
                 /\ r["answer"] = PyStr("I encountered an error: " \o e)

\* C3 happens: the generation service raised inside a query
C3_Witness ==
    /\ last.op = "query"
    /\ last.exception = <<ErrGenerate>>
    /\ last.trace[Len(last.trace)] = "generate"

IsPrefix(s, t) == Len(s) <= Len(t) /\ SubSeq(t, 1, Len(s)) = s

\* a step that is a query call returning success=true
SuccessfulQueryStep ==
    /\ clock' = clock + 1
    /\ last'.op = "query"
    /\ ~last'.outcome.raised
    /\ last'.outcome.value.v["success"] = PyBool(TRUE)

C4_Step ==
    /\ SuccessfulQueryStep =>
         /\ chat_history.t = "list" /\ chat_history'.t = "list"
         /\ Len(chat_history'.v) = Len(chat_history.v) + 1
         /\ SubSeq(chat_history'.v, 1, Len(chat_history.v)) = chat_history.v
         /\ LET turn == chat_history'.v[Len(chat_history'.v)].v
                r == last'.outcome.value.v
            IN  /\ turn["question"] = PyStr(last'.question)
                /\ turn["answer"] = r["answer"]
                /\ turn["sources"] = r["sources"]
                /\ turn["id"] = r["chat_id"]
    /\ ( /\ vault = "up" /\ vault' = "up"
         /\ chat_history.t = "list" /\ chat_history'.t = "list"
         /\ ~IsPrefix(chat_history.v, chat_history'.v) )
       => last'.op = "clear_chat_history"

\* C4: every query that returns success=true lengthens the memory by exactly
\* one turn, placed at the end, holding the asked question, the returned
\* answer and sources, with the returned chat_id as its id; the turns recorded
\* before stay as they were, and only clear_chat_history removes a turn.
C4_SuccessAppendsOneTurn == [][C4_Step]_vars

\* C4 happens: a successful query on a memory that already held a turn
C4_Witness ==
    /\ QuerySucceeded
    /\ Len(last.chat_history.v) >= 1
    /\ Len(chat_history.v) = Len(last.chat_history.v) + 1

SupportedSuffixes == {".pdf", ".txt", ".docx", ".doc", ".md"}

\* the positions of a batch whose file failed: no loader for its type, or its
\* loading or storing raised
FailedPositions(batch, outcomes) ==
    LET Fails(i) == \/ Lower(batch[i].suffix) \notin SupportedSuffixes
                    \/ outcomes[i] # "ok"
    IN  SelectSeq([i \in DOMAIN batch |-> i], Fails)

AttemptedPositions(batch) ==
    LET Loadable(i) == Lower(batch[i].suffix) \in SupportedSuffixes
    IN  SelectSeq([i \in DOMAIN batch |-> i], Loadable)

ErrorTexts(path) ==
    {"Unsupported file type: " \o path}
    \cup {"Error processing " \o path \o ": " \o e : e \in {ErrLoad, ErrEmbed}}

\* C5: add_documents attempts every file of the batch whatever happened to the
\* files before it, and returns processed + failed = number of files, with
\* errors holding one string per failed file, in the order of submission.
C5_BatchAccounting ==
    last.op = "add_documents" =>
        LET r == last.results
            failedAt == FailedPositions(last.batch, last.outcomes)
            triedAt == AttemptedPositions(last.batch)
        IN  /\ r.processed + r.failed = Len(last.batch)
            /\ r.failed = Len(failedAt)
            /\ Len(r.errors) = r.failed
            /\ \A j \in DOMAIN r.errors :
                 r.errors[j] \in ErrorTexts(last.batch[failedAt[j]].path)
            /\ last.loads = [j \in DOMAIN triedAt |-> last.batch[triedAt[j]].path]

\* C5 happens: a batch whose first file fails to load and whose second is
\* processed
C5_Witness ==
    /\ last.op = "add_documents"
    /\ Len(last.batch) = 2
    /\ last.outcomes[1] = "load_fails"
    /\ last.batch[1].path # last.batch[2].path
    /\ last.results.processed = 1
    /\ last.results.failed = 1

\* C6: _format_chat_context(0) returns "No previous conversation.", also when
\* the history is not empty.
C6_FormatZeroIsNoConversation ==
    ( /\ last.op = "_format_chat_context"
      /\ last.max_messages = 0
      /\ IsTurnList(chat_history) )
    => last.outcome = Returned(NoConversation)

\* the text the claim describes for the last k of the turns
ExpectedContext(turns, k) ==
    LET n == Len(turns)
        line(i) == LET turn == turns[n - k + ((i + 1) \div 2)].v
                   IN  IF i % 2 = 1 THEN "Q: " \o turn["question"].v
                       ELSE "A: " \o turn["answer"].v
    IN  Join("\n", [i \in 1..(2 * k) |-> line(i)])

\* C7: for a history of n turns and max_messages >= 1, _format_chat_context
\* renders the last min(max_messages, n) turns, oldest first, as alternating
\* "Q: <question>" / "A: <answer>" lines; for an empty history it returns
\* "No previous conversation.".
C7_FormatRendersLastTurns ==
    ( /\ last.op = "_format_chat_context"
      /\ last.max_messages >= 1
      /\ IsTurnList(chat_history) )
    => LET n == Len(chat_history.v)
       IN  last.outcome =
             IF n = 0 THEN Returned(NoConversation)
             ELSE Returned(ExpectedContext(chat_history.v,
                                           Min(last.max_messages, n)))

\* C7 happens: _format_chat_context(5) on a history of three turns
C7_Witness ==
    /\ last.op = "_format_chat_context"
    /\ last.max_messages = 5
    /\ IsTurnList(chat_history)
    /\ Len(chat_history.v) = 3

LastTurns(turns, k) == SubSeq(turns, Len(turns) - k + 1, Len(turns))

\* C8: get_chat_history(limit) returns the last min(limit, n) turns for every
\* supplied limit, limit = 0 included, and the full sequence only when limit
\* is absent.
C8_LimitedHistory ==
    ( /\ last.op = "get_chat_history"
      /\ last.limit # PyNone
      /\ IsTurnList(chat_history) )
    => last.outcome =
         Returned(PyList(LastTurns(chat_history.v,
                                   Min(last.limit.v, Len(chat_history.v)))))

\* chat_history.json holds an array of turns
HoldsTurns(f) ==
    /\ f.kind = "json"
    /\ f.doc.j = "array"
    /\ \A i \in DOMAIN f.doc.v :
         /\ f.doc.v[i].j = "object"
         /\ {"question", "answer"} \subseteq DOMAIN f.doc.v[i].v

\* C9: loading the chat history at startup never fails and yields a sequence
\* of turns: the empty one when the file is missing, unreadable, not JSON or
\* does not hold an array of turns.
C9_LoadNeverFails ==
    last.op = "init" =>
        /\ ~last.outcome.raised
        /\ vault = "up"
        /\ IsTurnList(chat_history)
        /\ ~HoldsTurns(last.file) => chat_history = PyList(<<>>)

\* C10: after a turn is appended and flushed, a fresh load from the file
\* yields a sequence whose last element equals that turn field for field and
\* whose earlier elements equal the earlier turns.
C10_RoundTrip ==
    QuerySucceeded =>
        LET loaded == LoadChatHistory(file)
            n == Len(chat_history.v)
        IN  /\ ~loaded.raised
            /\ loaded.value.t = "list"
            /\ Len(loaded.value.v) = n
            /\ loaded.value.v[n] =
                 ChatEntry(last.outcome.value.v["chat_id"].v, NowIso(clock - 1),
                           last.question, last.outcome.value.v["answer"].v,
                           Sources(last.retrieved))
            /\ SubSeq(loaded.value.v, 1, n - 1) = last.chat_history.v

\* C10 happens: a flushed turn with sources, after an earlier turn
C10_Witness ==
    /\ QuerySucceeded
    /\ Len(chat_history.v) >= 2
    /\ Len(last.retrieved) = 2

HasPrefix(s, p) == Len(s) >= Len(p) /\ SubSeq(s, 1, Len(p)) = p

\* the entries the last add_documents call added to the vector store
AddedEntries == SubSeq(index, Len(last.index) + 1, Len(index))

\* position i of the last batch is the j-th failed file of that batch
ErrorSlot(i) ==
    LET failedAt == FailedPositions(last.batch, last.outcomes)
    IN  CHOOSE j \in DOMAIN failedAt : failedAt[j] = i

\* C11: a file whose extension, lower-cased, is not one of pdf, txt, docx,
\* doc, md is counted as failed with an error beginning "Unsupported file
\* type: ", no loader is invoked for it and it adds nothing to the vector
\* store; a batch holding only such a file returns processed = 0, failed = 1.
C11_UnsupportedTypeRejected ==
    last.op = "add_documents" =>
        /\ \A i \in DOMAIN last.batch :
             Lower(last.batch[i].suffix) \notin SupportedSuffixes =>
                /\ \A k \in DOMAIN last.loads : last.loads[k] # last.batch[i].path
                /\ \A k \in DOMAIN AddedEntries :
                     AddedEntries[k].metadata["source"] # PyStr(last.batch[i].name)
                /\ Len(last.results.errors) >= ErrorSlot(i)
                /\ HasPrefix(last.results.errors[ErrorSlot(i)],
                             "Unsupported file type: ")
        /\ ( Len(last.batch) = 1
             /\ Lower(last.batch[1].suffix) \notin SupportedSuffixes )
           => /\ last.results.processed = 0
              /\ last.results.failed = 1
              /\ Len(last.results.errors) = 1
              /\ index = last.index

\* C11 happens: a batch holding only the .exe file
C11_Witness ==
    /\ last.op = "add_documents"
    /\ Len(last.batch) = 1
    /\ last.batch[1].suffix = ".exe"
    /\ last.results = [processed |-> 0, failed |-> 1,
                       errors |-> <<"Unsupported file type: data/setup.exe">>]

\* C12: a file larger than the 10 MB limit is rejected by add_documents
\* before its loader is invoked: it is counted as failed and adds nothing to
\* the vector store.
C12_OversizedFileRejected ==
    last.op = "add_documents" =>
        \A i \in DOMAIN last.batch :
            ~ValidateFileSize(last.batch[i]) =>
                /\ \A k \in DOMAIN last.loads : last.loads[k] # last.batch[i].path
                /\ i \in { FailedPositions(last.batch, last.outcomes)[j] :
                             j \in DOMAIN FailedPositions(last.batch, last.outcomes) }
                /\ last.results.failed >= 1
                /\ \A k \in DOMAIN AddedEntries :
                     AddedEntries[k].metadata["source"] # PyStr(last.batch[i].name)

\* the distinct sources of the entries in the vector store
StoredSources == { index[i].metadata["source"] : i \in DOMAIN index }

PromptSent == last.op = "query" /\ Len(last.prompt) = 1

\* C14: the chat context in a query's prompt is _format_chat_context(5) of
\* the turns recorded before the query (the last min(5, n) of them, or
\* "No previous conversation." for none), never the turn being answered; so
\* the second of two queries sees the first one's question and answer.
C14_ChatContextIsEarlierTurns ==
    (PromptSent /\ IsTurnList(last.chat_history)) =>
        LET earlier == last.chat_history.v
            n == Len(earlier)
        IN  /\ last.prompt[1].question = last.question
            /\ last.prompt[1].chat_context =
                 IF n = 0 THEN NoConversation
                 ELSE ExpectedContext(earlier, Min(DefaultContextMessages, n))

\* C14 happens: a second query, asked after a first that succeeded on an
\* empty memory, is sent with the first one's question and answer
C14_Witness ==
    /\ PromptSent
    /\ clock = 2
    /\ IsTurnList(last.chat_history)
    /\ Len(last.chat_history.v) = 1
    /\ last.chat_history.v[1].v["id"] = PyStr(Uuid4(0))
    /\ last.prompt[1].chat_context =
         "Q: " \o last.chat_history.v[1].v["question"].v
         \o "\nA: " \o last.chat_history.v[1].v["answer"].v

\* no provider and no storage call raises during the last query
NothingRaisedOutside ==
    last.env.fault = "none" /\ last.env.save = "written"

Occurrences(step) ==
    Cardinality({ i \in DOMAIN last.trace : last.trace[i] = step })

\* C16: a query goes through retrieving, composing, generating and recording
\* in that order, each at most once: the index is searched once, the
\* generation service is invoked only after retrieval and composing, a turn
\* is recorded only after generation succeeded, and the call ends done
\* (success=true) or failed (success=false).
C16_QueryStateMachine ==
    last.op = "query" =>
        /\ Occurrences("search") = 1
        /\ \A step \in {"format", "generate", "append", "save"} :
             Occurrences(step) <= 1
        /\ \A i \in DOMAIN last.trace : i > 1 =>
             <<last.trace[i - 1], last.trace[i]>> \in
                { <<"search", "format">>, <<"format", "generate">>,
                  <<"generate", "append">>, <<"append", "save">> }
        /\ chat_history # last.chat_history =>
             (Occurrences("generate") = 1 /\ last.env.fault # "llm")
        /\ QuerySucceeded \/ QueryFailed

\* the snippet query is to record for one chunk
Snippet(chunk) ==
    PyDict([content |-> PyStr(SubSeq(chunk.page_content, 1,
                                     Min(PreviewChars, Len(chunk.page_content)))
                              \o "..."),
            source |-> chunk.metadata["source"],
            page |-> IF "page" \in DOMAIN chunk.metadata
                     THEN chunk.metadata["page"] ELSE PyNone])

\* C17: for every successful query there is one ordered list of retrieved
\* chunks such that the prompt's context is their texts joined by blank
\* lines and the returned and recorded sources are their snippets, one per
\* chunk in the same order: preview = first 200 characters + "...", the
\* chunk's source, and its page or None.
C17_SourcesMatchContextChunks ==
    QuerySucceeded =>
        \E r \in Rankings(index) :
            LET chunks == Retrieved(index, r)
                snippets == PyList([i \in DOMAIN chunks |-> Snippet(chunks[i])])
            IN  /\ last.prompt[1].context =
                     Join("\n\n", [i \in DOMAIN chunks |-> chunks[i].page_content])
                /\ last.outcome.value.v["sources"] = snippets
                /\ chat_history.v[Len(chat_history.v)].v["sources"] = snippets

\* C18: in the frontend, in every state after the vault has been
\* initialized (straight after startup on a storage that holds persisted
\* turns, after questions and Clear Chat History clicks), the session's
\* chat_history, which is what is displayed and exported, equals the vault's
\* chat_history.
C18_SessionShowsMemory ==
    (vault = "up" /\ IsTurnList(chat_history)) =>
        session_chat_history = chat_history

====
